---- MODULE Spec2Model ----
(***************************************************************************)
(* The churn-prediction wizard of project/src/App.tsx: the React state of  *)
(* the App component, its event handlers, the gating of those handlers by  *)
(* what the component renders, and the outstanding prediction requests.    *)
(*                                                                         *)
(* Values that the source keeps as "number | ''" or "T | null" are kept    *)
(* here as sequences of length at most one: << >> is '' / null / NaN and   *)
(* <<v>> is the value v.                                                   *)
(***************************************************************************)
EXTENDS Integers, Sequences, FiniteSets, TLC

VARIABLES formData, prediction, loading, error, currentGroupIndex,
          showResults, inflight, lastOp, lastArg, edits, view

vars == <<formData, prediction, loading, error, currentGroupIndex,
          showResults, inflight, lastOp, lastArg, edits, view>>

\* formData .. showResults are the useState cells of App and inflight the
\* requests sent and not yet answered, each with the body it carries.
\* lastOp is the handler the last event reached ("nextDisabled" and
\* "prevDisabled": a click on a disabled button, which reaches none), and
\* lastArg what that event carried: the name and value of the changed input,
\* or what a response delivered, the parsed JSON or the Error's message.

\* edits counts the single field edits made so far.
\* view is what the prediction branch of the results view displays, once it
\* has been rendered: the risk colour, the risk label and the action plan.

\* ------------------------------------------------------------------ bounds
\* Single field edits a behaviour may contain (whole groups are filled by
\* FillGroup, which is not counted).
MaxEdits == 1
\* Requests that may be outstanding at once when the handlers are invoked
\* without the gating of the rendered buttons (SpecDirect).
MaxInFlight == 2

\* ------------------------------------------------------- static metadata
None == << >>
Some(v) == <<v>>

FieldNames ==
    { "total_unsuccessful_calls", "CustomerServiceInteractionRatio",
      "MinutesOverUsage", "TotalRevenueGenerated", "TotalCallFeaturesUsed",
      "RetentionCalls", "RetentionOffersAccepted", "MadeCallToRetentionTeam",
      "AdjustmentsToCreditRating", "MonthlyRevenue", "TotalRecurringCharge",
      "OverageMinutes", "MonthsInService", "PercChangeMinutes",
      "PercChangeRevenues", "HandsetPrice", "CreditRating", "IncomeGroup",
      "AgeHH1", "AgeHH2", "ChildrenInHH" }

initialFormData == [f \in FieldNames |-> None]

fieldGroups ==
    << [title |-> "Service Usage",
        fields |-> << "total_unsuccessful_calls", "MinutesOverUsage",
                      "TotalCallFeaturesUsed", "OverageMinutes" >>],
       [title |-> "Customer Service",
        fields |-> << "CustomerServiceInteractionRatio", "RetentionCalls",
                      "RetentionOffersAccepted", "MadeCallToRetentionTeam" >>],
       [title |-> "Financial Information",
        fields |-> << "TotalRevenueGenerated", "MonthlyRevenue",
                      "TotalRecurringCharge", "AdjustmentsToCreditRating" >>],
       [title |-> "Service History",
        fields |-> << "MonthsInService", "PercChangeMinutes",
                      "PercChangeRevenues", "HandsetPrice" >>],
       [title |-> "Customer Profile",
        fields |-> << "CreditRating", "IncomeGroup", "AgeHH1", "AgeHH2",
                      "ChildrenInHH" >>] >>

lastGroupIndex == Len(fieldGroups) - 1

\* The source indexes fieldGroups from 0; currentGroupIndex keeps that base.
currentGroup == fieldGroups[currentGroupIndex + 1]

\* min / max are None where the source declares none.
OnlyMin(lo) == [min |-> Some(lo), max |-> None]
MinMax(lo, hi) == [min |-> Some(lo), max |-> Some(hi)]

fieldConstraints ==
    [f \in FieldNames |->
        CASE f \in {"CustomerServiceInteractionRatio", "MadeCallToRetentionTeam"}
               -> MinMax(0, 1)
          [] f \in {"PercChangeMinutes", "PercChangeRevenues"}
               -> MinMax(-100, 100)
          [] f \in {"CreditRating", "IncomeGroup"} -> MinMax(1, 5)
          [] f \in {"AgeHH1", "AgeHH2"} -> MinMax(0, 120)
          [] OTHER -> OnlyMin(0)]

\* ------------------------------------------------------------ parseFloat
\* Raw input is a sequence of one-character strings.  parseFloat reads an
\* optional sign and the longest run of decimal digits after it, and gives
\* NaN when there is no digit.  (White space, '.', exponents and "Infinity"
\* are outside the alphabet of the inputs enumerated below.)
DigitVal == ("0" :> 0) @@ ("1" :> 1) @@ ("2" :> 2) @@ ("3" :> 3) @@ ("4" :> 4)
            @@ ("5" :> 5) @@ ("6" :> 6) @@ ("7" :> 7) @@ ("8" :> 8) @@ ("9" :> 9)

IsDigit(c) == c \in DOMAIN DigitVal

NaN == None
isNaN(x) == x = NaN

RECURSIVE digits(_, _, _)
\* The number read from s at position i on, acc being the digits read so far
\* (None: no digit yet).
digits(s, i, acc) ==
    IF i <= Len(s) /\ IsDigit(s[i])
    THEN digits(s, i + 1,
                Some((IF acc = None THEN 0 ELSE 10 * acc[1]) + DigitVal[s[i]]))
    ELSE acc

parseFloat(s) ==
    LET signed == Len(s) > 0 /\ s[1] \in {"-", "+"}
        mag == digits(s, IF signed THEN 2 ELSE 1, None)
    IN  IF mag = None THEN NaN
        ELSE IF signed /\ s[1] = "-" THEN Some(0 - mag[1]) ELSE mag

\* ----------------------------------------------------- handleInputChange
\* finalValue without the clamp to max.
finalValue_noMax(name, numValue) ==
    IF fieldConstraints[name].min # None
       /\ numValue < fieldConstraints[name].min[1]
    THEN fieldConstraints[name].min[1] ELSE numValue

\* finalValue of handleInputChange for a numValue that is a number.
finalValue(name, numValue) ==
    LET constraints == fieldConstraints[name]
        low == IF constraints.min # None /\ numValue < constraints.min[1]
               THEN constraints.min[1] ELSE numValue
    IN  IF constraints.max # None /\ numValue > constraints.max[1]
        THEN constraints.max[1] ELSE low

\* handleInputChange storing '' when the value is no number.
changedFormData_clearsOnNaN(prev, name, value) ==
    IF value = << >> \/ isNaN(parseFloat(value))
    THEN [prev EXCEPT ![name] = None]
    ELSE [prev EXCEPT ![name] = Some(finalValue(name, parseFloat(value)[1]))]

\* handleInputChange storing Number(value), which is 0 for ''.
changedFormData_zeroOnEmpty(prev, name, value) ==
    IF value = << >>
    THEN [prev EXCEPT ![name] = Some(0)]
    ELSE IF isNaN(parseFloat(value)) THEN prev
         ELSE [prev EXCEPT
                 ![name] = Some(finalValue(name, parseFloat(value)[1]))]

\* handleInputChange without the spread of prev in its setFormData.
changedFormData_dropsOthers(prev, name, value) ==
    IF value = << >>
    THEN [f \in FieldNames |-> None]
    ELSE IF isNaN(parseFloat(value)) THEN prev
         ELSE [f \in FieldNames |->
                 IF f = name
                 THEN Some(finalValue(name, parseFloat(value)[1]))
                 ELSE None]

\* The form data after handleInputChange on the input `name` with `value`.
changedFormData(prev, name, value) ==
    IF value = << >>
    THEN [prev EXCEPT ![name] = None]
    ELSE LET numValue == parseFloat(value)
         IN  IF isNaN(numValue) THEN prev
             ELSE [prev EXCEPT ![name] = Some(finalValue(name, numValue[1]))]

handleInputChange(name, value) ==
    /\ formData' = changedFormData(formData, name, value)
    /\ UNCHANGED <<prediction, loading, error, currentGroupIndex, showResults,
                   inflight>>

\* ---------------------------------------------------------- handleSubmit
ValidationMessage == "Please fill in all fields before submitting."
RequestFailedMessage == "Prediction request failed"
\* The message of the TypeError fetch rejects with on a transport failure.
TransportMessage == "Failed to fetch"

\* every in place of some: only an entirely empty record counts as empty.
hasEmptyFields_every(fd) == \A f \in FieldNames : fd[f] = None

hasEmptyFields(fd) == \E f \in FieldNames : fd[f] = None

\* handleSubmit without its setError(null).
handleSubmit_keepsError ==
    IF \E f \in FieldNames : formData[f] = None
    THEN /\ error' = Some(ValidationMessage)
         /\ UNCHANGED <<formData, prediction, loading, currentGroupIndex,
                        showResults, inflight>>
    ELSE /\ loading' = TRUE
         /\ inflight' = Append(inflight, [body |-> formData])
         /\ UNCHANGED <<formData, prediction, error, currentGroupIndex,
                        showResults>>

\* handleSubmit without the test for empty fields.
handleSubmit_noValidation ==
    /\ loading' = TRUE
    /\ error' = None
    /\ inflight' = Append(inflight, [body |-> formData])
    /\ UNCHANGED <<formData, prediction, currentGroupIndex, showResults>>

\* handleSubmit up to its first await: the validation, and on a complete
\* record setLoading(true), setError(null) and the POST of the form data.
handleSubmit ==
    IF hasEmptyFields(formData)
    THEN /\ error' = Some(ValidationMessage)
         /\ UNCHANGED <<formData, prediction, loading, currentGroupIndex,
                        showResults, inflight>>
    ELSE /\ loading' = TRUE
         /\ error' = None
         /\ inflight' = Append(inflight, [body |-> formData])
         /\ UNCHANGED <<formData, prediction, currentGroupIndex, showResults>>

Results == { [predicted_churn |-> 1, churn_probability |-> 85],
             [predicted_churn |-> 0, churn_probability |-> 30] }

RemoveAt(s, i) == [j \in 1..(Len(s) - 1) |-> IF j < i THEN s[j] ELSE s[j + 1]]

\* The rest of handleSubmit for request i, resumed with response.ok and the
\* parsed JSON: setPrediction, setShowResults(true), then finally.
resumeOk(i, result) ==
    /\ prediction' = Some(result)
    /\ showResults' = TRUE
    /\ loading' = FALSE
    /\ inflight' = RemoveAt(inflight, i)
    /\ UNCHANGED <<formData, error, currentGroupIndex>>

\* A catch block that sends the request again.
resumeFailed_retries(i, message) ==
    /\ error' = Some(message)
    /\ inflight' = Append(RemoveAt(inflight, i), inflight[i])
    /\ UNCHANGED <<formData, prediction, loading, showResults,
                   currentGroupIndex>>

\* handleSubmit without its finally block.
resumeFailed_keepsLoading(i, message) ==
    /\ error' = Some(message)
    /\ inflight' = RemoveAt(inflight, i)
    /\ UNCHANGED <<formData, prediction, loading, showResults,
                   currentGroupIndex>>

\* The rest of handleSubmit for request i when fetch rejects or the status
\* is not ok: catch (setError with the Error's message), then finally.
resumeFailed(i, message) ==
    /\ error' = Some(message)
    /\ loading' = FALSE
    /\ inflight' = RemoveAt(inflight, i)
    /\ UNCHANGED <<formData, prediction, showResults, currentGroupIndex>>

\* ------------------------------------------------------------ navigation
\* nextGroup that also clears the error when it moves to the next group.
nextGroup_clearsError ==
    IF currentGroupIndex < Len(fieldGroups) - 1
    THEN /\ currentGroupIndex' = currentGroupIndex + 1
         /\ error' = None
         /\ UNCHANGED <<formData, prediction, loading, showResults, inflight>>
    ELSE handleSubmit

\* nextGroup comparing with fieldGroups.length instead of length - 1.
nextGroup_offByOne ==
    IF currentGroupIndex < Len(fieldGroups)
    THEN /\ currentGroupIndex' = currentGroupIndex + 1
         /\ UNCHANGED <<formData, prediction, loading, error, showResults,
                        inflight>>
    ELSE handleSubmit

nextGroup ==
    IF currentGroupIndex < Len(fieldGroups) - 1
    THEN /\ currentGroupIndex' = currentGroupIndex + 1
         /\ UNCHANGED <<formData, prediction, loading, error, showResults,
                        inflight>>
    ELSE handleSubmit

\* prevGroup without its test of currentGroupIndex > 0.
prevGroup_noGuard ==
    /\ currentGroupIndex' = currentGroupIndex - 1
    /\ UNCHANGED <<formData, prediction, loading, error, showResults,
                   inflight>>

prevGroup ==
    IF currentGroupIndex > 0
    THEN /\ currentGroupIndex' = currentGroupIndex - 1
         /\ UNCHANGED <<formData, prediction, loading, error, showResults,
                        inflight>>
    ELSE UNCHANGED <<formData, prediction, loading, error, currentGroupIndex,
                     showResults, inflight>>

\* resetForm without its setError(null).
resetForm_keepsError ==
    /\ formData' = initialFormData
    /\ prediction' = None
    /\ currentGroupIndex' = 0
    /\ showResults' = FALSE
    /\ UNCHANGED <<error, loading, inflight>>

\* resetForm without its setShowResults(false).
resetForm_keepsShowResults ==
    /\ formData' = initialFormData
    /\ prediction' = None
    /\ currentGroupIndex' = 0
    /\ error' = None
    /\ UNCHANGED <<showResults, loading, inflight>>

\* resetForm that also runs setLoading(false).
resetForm_clearsLoading ==
    /\ formData' = initialFormData
    /\ prediction' = None
    /\ currentGroupIndex' = 0
    /\ showResults' = FALSE
    /\ error' = None
    /\ loading' = FALSE
    /\ UNCHANGED inflight

resetForm ==
    /\ formData' = initialFormData
    /\ prediction' = None
    /\ currentGroupIndex' = 0
    /\ showResults' = FALSE
    /\ error' = None
    /\ UNCHANGED <<loading, inflight>>

\* --------------------------------------------------------------- render
\* What the component renders decides which handlers an event can reach.
\* A Next button that is never disabled.
nextDisabled_never == FALSE

formRendered == ~showResults
nextDisabled == loading
prevDisabled == currentGroupIndex = 0
resetRendered == showResults /\ error = None /\ prediction # None

\* ------------------------------------------------------------- the events
\* Raw values of single change events: '', a value below most mins, a value
\* above every max, and text that is no number.
RawInputs == { << >>, <<"-", "5">>, <<"2", "0", "0">>, <<"x">> }
\* Raw value typed into every input of a group by FillGroup.
FillInputs == { <<"1">> }

RECURSIVE fillFields(_, _, _)
fillFields(fd, names, value) ==
    IF names = << >> THEN fd
    ELSE fillFields(changedFormData(fd, Head(names), value), Tail(names), value)

Init ==
    /\ formData = initialFormData
    /\ prediction = None
    /\ loading = FALSE
    /\ error = None
    /\ currentGroupIndex = 0
    /\ showResults = FALSE
    /\ inflight = << >>
    /\ lastOp = "none"
    /\ lastArg = None
    /\ edits = 0
    /\ view = None

\* A change event on one input of the displayed group.
ChangeInput ==
    /\ formRendered
    /\ edits < MaxEdits
    /\ \E i \in 1..Len(currentGroup.fields), value \in RawInputs :
          /\ handleInputChange(currentGroup.fields[i], value)
          /\ lastArg' = Some([name |-> currentGroup.fields[i],
                              value |-> value])
    /\ edits' = edits + 1
    /\ lastOp' = "handleInputChange"
    /\ UNCHANGED view

\* One change event on every input of the displayed group, in order.
FillGroup ==
    /\ formRendered
    /\ \E value \in FillInputs :
          formData' = fillFields(formData, currentGroup.fields, value)
    /\ UNCHANGED <<prediction, loading, error, currentGroupIndex, showResults,
                   inflight, edits>>
    /\ lastOp' = "fillGroup"
    /\ UNCHANGED view
    /\ lastArg' = None

\* A click on the Next / Predict Churn button.
ClickNext ==
    /\ formRendered
    /\ IF nextDisabled
       THEN /\ UNCHANGED <<formData, prediction, loading, error,
                           currentGroupIndex, showResults, inflight>>
            /\ lastOp' = "nextDisabled"
            /\ UNCHANGED view
            /\ lastArg' = None
       ELSE /\ nextGroup
            /\ lastOp' = "nextGroup"
            /\ UNCHANGED view
            /\ lastArg' = None
    /\ UNCHANGED edits

\* A click on the Previous button.
ClickPrev ==
    /\ formRendered
    /\ IF prevDisabled
       THEN /\ UNCHANGED <<formData, prediction, loading, error,
                           currentGroupIndex, showResults, inflight>>
            /\ lastOp' = "prevDisabled"
            /\ UNCHANGED view
            /\ lastArg' = None
       ELSE /\ prevGroup
            /\ lastOp' = "prevGroup"
            /\ UNCHANGED view
            /\ lastArg' = None
    /\ UNCHANGED edits

\* A click on Analyze Another Customer.
ClickReset ==
    /\ resetRendered
    /\ resetForm
    /\ lastOp' = "resetForm"
    /\ UNCHANGED view
    /\ lastArg' = None
    /\ UNCHANGED edits

\* The service answers request i with a success status and a prediction.
ResponseOk ==
    /\ \E i \in 1..Len(inflight), result \in Results :
          /\ resumeOk(i, result)
          /\ lastArg' = Some(result)
    /\ lastOp' = "responseOk"
    /\ UNCHANGED view
    /\ UNCHANGED edits

\* Request i fails: a status that is not ok, or a transport failure.
ResponseFailed ==
    /\ \E i \in 1..Len(inflight),
          message \in {RequestFailedMessage, TransportMessage} :
          /\ resumeFailed(i, message)
          /\ lastArg' = Some(message)
    /\ lastOp' = "responseFailed"
    /\ UNCHANGED view
    /\ UNCHANGED edits

Next ==
    \/ ChangeInput
    \/ FillGroup
    \/ ClickNext
    \/ ClickPrev
    \/ ClickReset
    \/ ResponseOk
    \/ ResponseFailed

Spec == Init /\ [][Next]_vars

\* ------------------------------------------- the handlers invoked directly
\* The controller operations triggered without regard to what is rendered
\* (the operations as an interface that is callable at any time).  Single
\* field edits are left to Spec; groups are still filled, a group at a time.
\* A trigger that would send a request is held back at MaxInFlight.
sendAllowed == hasEmptyFields(formData) \/ Len(inflight) < MaxInFlight

DirectNext ==
    /\ currentGroupIndex = Len(fieldGroups) - 1 => sendAllowed
    /\ nextGroup
    /\ lastOp' = "nextGroup"
    /\ UNCHANGED view
    /\ lastArg' = None
    /\ UNCHANGED edits

DirectSubmit ==
    /\ sendAllowed
    /\ handleSubmit
    /\ lastOp' = "handleSubmit"
    /\ UNCHANGED view
    /\ lastArg' = None
    /\ UNCHANGED edits

DirectPrev ==
    /\ prevGroup
    /\ lastOp' = "prevGroup"
    /\ UNCHANGED view
    /\ lastArg' = None
    /\ UNCHANGED edits

DirectReset ==
    /\ resetForm
    /\ lastOp' = "resetForm"
    /\ UNCHANGED view
    /\ lastArg' = None
    /\ UNCHANGED edits

DirectFill ==
    /\ \E value \in FillInputs :
          formData' = fillFields(formData, currentGroup.fields, value)
    /\ UNCHANGED <<prediction, loading, error, currentGroupIndex, showResults,
                   inflight, edits>>
    /\ lastOp' = "fillGroup"
    /\ UNCHANGED view
    /\ lastArg' = None

NextDirect ==
    \/ DirectFill
    \/ DirectNext
    \/ DirectSubmit
    \/ DirectPrev
    \/ DirectReset
    \/ ResponseOk
    \/ ResponseFailed

SpecDirect == Init /\ [][NextDirect]_vars

\* ------------------------------------------------- reset callable any time
\* The rendered component with resetForm callable whatever is rendered, also
\* while a request is outstanding; the buttons of the form gate nextGroup and
\* prevGroup as they do in Spec.  Single field edits are left to Spec.
NextAnytimeReset ==
    \/ FillGroup
    \/ ClickNext
    \/ ClickPrev
    \/ DirectReset
    \/ ResponseOk
    \/ ResponseFailed

SpecAnytimeReset == Init /\ [][NextAnytimeReset]_vars

\* The promise of fetch settles: an outstanding request is answered or fails
\* in the end, and the event loop then resumes handleSubmit.  Which of the
\* two happens is left open.
SpecFair == SpecAnytimeReset /\ WF_vars(ResponseOk \/ ResponseFailed)

\* --------------------------------------------------------- the results view
\* Probabilities are counted in hundredths: 30 is 0.3 and 70 is 0.7.
\* getChurnRiskColor with <= in place of < in its first test.
getChurnRiskColor_inclusive(probability) ==
    IF probability <= 30 THEN "bg-green-100 text-green-800"
    ELSE IF probability < 70 THEN "bg-yellow-100 text-yellow-800"
    ELSE "bg-red-100 text-red-800"

getChurnRiskColor(probability) ==
    IF probability < 30 THEN "bg-green-100 text-green-800"
    ELSE IF probability < 70 THEN "bg-yellow-100 text-yellow-800"
    ELSE "bg-red-100 text-red-800"

CriticalPlan ==
    [title |-> "Critical Retention Actions Required",
     steps |-> << "Analyze recent service disruptions and prepare compensation package",
                  "Review competitor offers in customer's area to create a competitive counter-offer",
                  "Prepare premium service upgrade proposal with first 3 months at reduced rate",
                  "Document all recent customer service interactions for retention specialist review" >>]

PreventivePlan ==
    [title |-> "Preventive Measures Recommended",
     steps |-> << "Review service usage patterns for optimization opportunities",
                  "Prepare proactive upgrade offers based on usage patterns",
                  "Schedule routine check-in call within next 2 weeks",
                  "Monitor service quality metrics for any degradation" >>]

GrowthPlan ==
    [title |-> "Growth Opportunity Identified",
     steps |-> << "Analyze usage patterns for premium service opportunities",
                  "Include in beta testing program for new features",
                  "Consider for loyalty rewards program enrollment",
                  "Schedule annual service review and upgrade discussion" >>]

\* getRecommendedActions with the thresholds of getChurnRiskColor.
getRecommendedActions_unified(probability) ==
    IF probability >= 70 THEN CriticalPlan
    ELSE IF probability >= 30 THEN PreventivePlan
    ELSE GrowthPlan

getRecommendedActions(probability) ==
    IF probability > 70 THEN CriticalPlan
    ELSE IF probability > 40 THEN PreventivePlan
    ELSE GrowthPlan

\* The record with every input of every group filled with "1".
filledFormData ==
    LET fill(fd, k) == fillFields(fd, fieldGroups[k].fields, <<"1">>)
    IN  fill(fill(fill(fill(fill(initialFormData, 1), 2), 3), 4), 5)

\* The states right after a success response to a filled record, for every
\* prediction whose probability is a whole number of hundredths in [0, 1].
InitResults ==
    /\ formData = filledFormData
    /\ prediction \in { Some([predicted_churn |-> c, churn_probability |-> p]) :
                           c \in {0, 1}, p \in 0..100 }
    /\ loading = FALSE
    /\ error = None
    /\ currentGroupIndex = lastGroupIndex
    /\ showResults = TRUE
    /\ inflight = << >>
    /\ lastOp = "responseOk"
    /\ lastArg = prediction
    /\ edits = 0
    /\ view = None

\* The render of the prediction branch of the results view.
RenderResults ==
    /\ resetRendered
    /\ view' = Some([riskColor |->
                        getChurnRiskColor(prediction[1].churn_probability),
                     riskLabel |->
                        IF prediction[1].predicted_churn = 1
                        THEN "High Risk of Churn" ELSE "Low Risk of Churn",
                     actions |->
                        getRecommendedActions(prediction[1].churn_probability)])
    /\ lastOp' = "render"
    /\ UNCHANGED <<formData, prediction, loading, error, currentGroupIndex,
                   showResults, inflight, lastArg, edits>>

NextResults == RenderResults

SpecResults == InitResults /\ [][NextResults]_vars

\* ================================================================ claims
state == <<formData, prediction, loading, error, currentGroupIndex,
           showResults, inflight>>
isInitial(fd, idx, shown, pred, err) ==
    /\ idx = 0
    /\ shown = FALSE
    /\ pred = None
    /\ err = None
    /\ \A f \in FieldNames : fd[f] = None

\* C1: whenever the results are shown, exactly one of error and prediction
\* is set: at least one of them, and never both.
C1_ResultsShowExactlyOne ==
    showResults => ((error # None) # (prediction # None))

C1_Witness ==
    /\ showResults
    /\ prediction # None
    /\ error = None
    /\ lastOp = "responseOk"

C3_NoSubmitWhileLoading ==
    [][/\ (/\ loading
           /\ currentGroupIndex = lastGroupIndex
           /\ lastOp' \in {"nextGroup", "nextDisabled", "handleSubmit"})
          => UNCHANGED state
       /\ Len(inflight') <= 1]_vars

C3_Witness ==
    /\ lastOp = "nextDisabled"
    /\ loading
    /\ currentGroupIndex = lastGroupIndex
    /\ Len(inflight) = 1

\* C4: after a request has failed, error is set, the results are shown,
\* loading is false and prediction is unset.
C4_FailureShowsError ==
    lastOp = "responseFailed"
        => /\ error # None
           /\ showResults
           /\ ~loading
           /\ prediction = None

\* C5: a submission with a field unset sets the validation error, sends
\* nothing, leaves loading and showResults as they were; and a request is
\* sent only from a record with no field unset.
C5_IncompleteNotSent ==
    [][LET incomplete == \E f \in FieldNames : formData[f] = None
           submits == \/ lastOp' = "handleSubmit"
                      \/ /\ lastOp' = "nextGroup"
                         /\ currentGroupIndex = lastGroupIndex
       IN  /\ (submits /\ incomplete)
                => /\ error' = Some(ValidationMessage)
                   /\ inflight' = inflight
                   /\ loading' = loading
                   /\ showResults' = showResults
           /\ Len(inflight') > Len(inflight) => ~incomplete]_vars

C5_Witness ==
    /\ lastOp = "nextGroup"
    /\ currentGroupIndex = lastGroupIndex
    /\ error = Some(ValidationMessage)
    /\ \E f \in FieldNames : formData[f] = None
    /\ \E f \in FieldNames : formData[f] # None
    /\ inflight = << >>
    /\ ~loading

\* C6: after a success response, prediction is the result it returned, the
\* results are shown, error is unset and loading is false.
C6_SuccessStoresResult ==
    lastOp = "responseOk"
        => /\ prediction = lastArg
           /\ prediction # None
           /\ showResults
           /\ error = None
           /\ ~loading

C6_Witness ==
    /\ lastOp = "responseOk"
    /\ prediction = Some([predicted_churn |-> 1, churn_probability |-> 85])
    /\ showResults
    /\ error = None
    /\ ~loading

\* C7: resetForm, from whatever state it is invoked in, leaves the group
\* index 0, the results hidden, prediction and error unset and all 21
\* fields unset.
C7_ResetYieldsInitial ==
    lastOp = "resetForm"
        => isInitial(formData, currentGroupIndex, showResults, prediction,
                     error)

C7_Witness ==
    /\ lastOp = "resetForm"
    /\ Len(inflight) > 0
    /\ loading
    /\ isInitial(formData, currentGroupIndex, showResults, prediction, error)

\* C8: every field is unset or a number that is at least the declared min
\* and at most the declared max of the field.
C8_FieldsWithinBounds ==
    \A f \in FieldNames :
        \/ formData[f] = None
        \/ /\ fieldConstraints[f].min # None
                => formData[f][1] >= fieldConstraints[f].min[1]
           /\ fieldConstraints[f].max # None
                => formData[f][1] <= fieldConstraints[f].max[1]

C8_Witness ==
    /\ lastOp = "handleInputChange"
    /\ formData["AgeHH1"] = Some(120)
    /\ formData["CreditRating"] = Some(1)

\* C9: nextGroup below the last group adds exactly 1 to the index and
\* submits nothing; at the last group it submits and leaves the index
\* alone; and the response, when it is processed, leaves the index alone.
C9_NextStepsOrSubmits ==
    [][/\ (lastOp' = "nextGroup" /\ currentGroupIndex < 4)
          => /\ currentGroupIndex' = currentGroupIndex + 1
             /\ UNCHANGED <<inflight, loading, error>>
       /\ (lastOp' = "nextGroup" /\ currentGroupIndex = 4)
          => /\ currentGroupIndex' = 4
             /\ IF \E f \in FieldNames : formData[f] = None
                THEN error' = Some(ValidationMessage) /\ inflight' = inflight
                ELSE inflight' = Append(inflight, [body |-> formData])
       /\ lastOp' \in {"responseOk", "responseFailed"}
          => currentGroupIndex' = currentGroupIndex]_vars

C9_Witness ==
    /\ lastOp = "responseOk"
    /\ currentGroupIndex = 4
    /\ showResults

\* C10: prevGroup at index 0 changes nothing, and at an index above 0 it
\* takes exactly 1 from the index.
C10_PrevStepsBack ==
    [][lastOp' \in {"prevGroup", "prevDisabled"}
       => IF currentGroupIndex = 0
          THEN UNCHANGED state
          ELSE currentGroupIndex' = currentGroupIndex - 1]_vars

C10_Witness ==
    /\ lastOp = "prevGroup"
    /\ currentGroupIndex = 3

\* C11: the group index is always one of 0, 1, 2, 3, 4.
C11_IndexInRange ==
    currentGroupIndex \in {0, 1, 2, 3, 4}

C11_Witness ==
    /\ currentGroupIndex = 4
    /\ lastOp = "nextGroup"
    /\ Len(inflight) = 2

\* C12: a change whose value is not empty and parses to no number leaves
\* every field as it was and sets no error.
C12_UnparsedEditIgnored ==
    [][(/\ lastOp' = "handleInputChange"
        /\ lastArg'[1].value # << >>
        /\ isNaN(parseFloat(lastArg'[1].value)))
       => /\ formData' = formData
          /\ error' = error]_vars

C12_Witness ==
    /\ lastOp = "handleInputChange"
    /\ lastArg = Some([name |-> "IncomeGroup", value |-> <<"x">>])
    /\ formData["IncomeGroup"] = Some(1)
    /\ error = None

\* C13: a change stores unset for the empty value, and otherwise, for the
\* parsed value v, the declared min when v is below it, the declared max
\* when v is above it, and v itself in every other case.
C13_EditStoresClamped ==
    [][lastOp' = "handleInputChange"
       => LET name == lastArg'[1].name
              value == lastArg'[1].value
              v == parseFloat(value)
              lo == fieldConstraints[name].min
              hi == fieldConstraints[name].max
          IN  IF value = << >> THEN formData'[name] = None
              ELSE IF v = NaN THEN formData'[name] = formData[name]
              ELSE IF lo # None /\ v[1] < lo[1] THEN formData'[name] = lo
              ELSE IF hi # None /\ v[1] > hi[1] THEN formData'[name] = hi
              ELSE formData'[name] = v]_vars

C13_Witness ==
    /\ lastOp = "handleInputChange"
    /\ lastArg = Some([name |-> "PercChangeMinutes", value |-> <<"-", "5">>])
    /\ formData["PercChangeMinutes"] = Some(-5)
    /\ formData["MonthsInService"] = Some(1)

\* C14: a change of one input leaves the other 20 fields, the group index,
\* showResults, loading, error and prediction as they were.
C14_EditTouchesOneField ==
    [][lastOp' = "handleInputChange"
       => /\ \A f \in FieldNames \ {lastArg'[1].name} :
                formData'[f] = formData[f]
          /\ UNCHANGED <<currentGroupIndex, showResults, loading, error,
                         prediction>>]_vars

C14_Witness ==
    /\ lastOp = "handleInputChange"
    /\ lastArg = Some([name |-> "AgeHH2", value |-> <<"2", "0", "0">>])
    /\ formData["AgeHH2"] = Some(120)
    /\ formData["AgeHH1"] = Some(1)
    /\ formData["total_unsuccessful_calls"] = Some(1)

\* C15: the body of every request that is outstanding has exactly the 21
\* field names as keys, each with a number that satisfies the declared min
\* and max of the field.
C15_RequestBodyComplete ==
    \A i \in 1..Len(inflight) :
        LET body == inflight[i].body
        IN  /\ DOMAIN body = FieldNames
            /\ Cardinality(DOMAIN body) = 21
            /\ \A f \in FieldNames :
                   /\ body[f] # None
                   /\ fieldConstraints[f].min # None
                        => body[f][1] >= fieldConstraints[f].min[1]
                   /\ fieldConstraints[f].max # None
                        => body[f][1] <= fieldConstraints[f].max[1]

C15_Witness ==
    /\ Len(inflight) = 1
    /\ inflight[1].body["AgeHH1"] = Some(120)
    /\ inflight[1].body["CreditRating"] = Some(1)
    /\ lastOp = "nextGroup"

\* C16: an accepted submission adds exactly one request, carrying the
\* record; a response ends exactly one request; and a request is added by
\* nothing but a submission the user triggers, so none follows a failure by
\* itself.
C16_OneRequestNoRetry ==
    [][LET complete == \A f \in FieldNames : formData[f] # None
           submits == \/ lastOp' = "handleSubmit"
                      \/ /\ lastOp' = "nextGroup"
                         /\ currentGroupIndex = lastGroupIndex
       IN  /\ (submits /\ complete)
                => inflight' = Append(inflight, [body |-> formData])
           /\ lastOp' \in {"responseOk", "responseFailed"}
                => /\ Len(inflight) > 0
                   /\ Len(inflight') = Len(inflight) - 1
           /\ ~submits => Len(inflight') <= Len(inflight)]_vars

C16_Witness ==
    /\ lastOp = "responseFailed"
    /\ inflight = << >>
    /\ ~loading
    /\ error = Some(RequestFailedMessage)

\* C17: the risk colour shown is the low one (green) for a probability
\* below 0.3, the medium one (yellow) from 0.3 up to but not including 0.7,
\* and the high one (red) from 0.7 on.
C17_ClassifyThresholds ==
    view # None
        => LET p == prediction[1].churn_probability
               low == "bg-green-100 text-green-800"
               medium == "bg-yellow-100 text-yellow-800"
               high == "bg-red-100 text-red-800"
           IN  /\ p < 30 => view[1].riskColor = low
               /\ (30 <= p /\ p < 70) => view[1].riskColor = medium
               /\ p >= 70 => view[1].riskColor = high

C17_Witness ==
    /\ view # None
    /\ prediction[1].churn_probability = 30
    /\ view[1].riskColor = "bg-yellow-100 text-yellow-800"

\* C18: the plan shown is the critical one above 0.7, the preventive one
\* above 0.4 and up to 0.7, and the growth one up to 0.4, each with 4
\* steps; so 0.7 is shown red with the preventive plan and 0.3 to 0.4
\* yellow with the growth plan.
C18_RecommendThresholds ==
    view # None
        => LET p == prediction[1].churn_probability
               plan == view[1].actions
           IN  /\ p > 70 => plan.title = "Critical Retention Actions Required"
               /\ (40 < p /\ p <= 70)
                    => plan.title = "Preventive Measures Recommended"
               /\ p <= 40 => plan.title = "Growth Opportunity Identified"
               /\ Len(plan.steps) = 4
               /\ p = 70
                    => /\ view[1].riskColor = "bg-red-100 text-red-800"
                       /\ plan.title = "Preventive Measures Recommended"
               /\ (30 <= p /\ p <= 40)
                    => /\ view[1].riskColor = "bg-yellow-100 text-yellow-800"
                       /\ plan.title = "Growth Opportunity Identified"

C18_Witness ==
    /\ view # None
    /\ prediction[1].churn_probability = 70
    /\ view[1].riskColor = "bg-red-100 text-red-800"
    /\ view[1].actions.title = "Preventive Measures Recommended"

\* C19: after a failed request, and whenever the results are shown, the
\* reset is available to the user: the reset button is rendered.
C19_ResetAvailable ==
    (lastOp = "responseFailed" \/ showResults) => resetRendered

\* C20: nextGroup below the last group and prevGroup at any index leave the
\* form data, prediction, error, loading and showResults as they were.
C20_NavigationKeepsData ==
    [][(\/ lastOp' = "nextGroup" /\ currentGroupIndex < lastGroupIndex
        \/ lastOp' \in {"prevGroup", "prevDisabled"})
       => UNCHANGED <<formData, prediction, error, loading, showResults>>]_vars

C20_Witness ==
    /\ lastOp = "nextGroup"
    /\ currentGroupIndex = 3
    /\ formData["total_unsuccessful_calls"] = None
    /\ formData["CreditRating"] = Some(1)
    /\ error = Some(ValidationMessage)


\* C21: loading is true exactly when a request is outstanding, in every
\* state, also after a reset made while the request is outstanding and after
\* clicks on the button while it is.
C21_LoadingIffOutstanding ==
    loading <=> Len(inflight) > 0

C21_Witness ==
    /\ lastOp = "resetForm"
    /\ loading
    /\ Len(inflight) = 1
    /\ formData = initialFormData

\* C22: when a response sets the prediction, the form data is complete and
\* is the record that the answered request carried: changes made while the
\* request was outstanding have not made it another record.
C22_ResultMatchesRecord ==
    [][lastOp' = "responseOk"
       => \E i \in 1..Len(inflight) :
             /\ inflight' = RemoveAt(inflight, i)
             /\ formData' = inflight[i].body
             /\ \A f \in FieldNames : formData'[f] # None]_vars

\* C23: whenever loading is true it is false again later, given that every
\* outstanding request is answered or fails in the end; this holds on the
\* success path and on the failure path.
C23_LoadingEnds ==
    loading ~> ~loading

C23_Witness ==
    /\ lastOp = "responseFailed"
    /\ lastArg = Some(TransportMessage)
    /\ ~loading
    /\ inflight = << >>
    /\ ~showResults

====
